---- MODULE Spec2Model ----
(***************************************************************************)
(* A model of the IMAP session wrapper (app/services/imap_client.py) and   *)
(* of the HTTP handlers that drive it (app/main.py).                       *)
(*                                                                         *)
(* The wrapper is a thin layer over Python's imaplib.  What a wrapper call *)
(* does is decided by imaplib's client-side state machine (NONAUTH, AUTH,  *)
(* SELECTED, LOGOUT), by the socket (open or closed locally, link up or    *)
(* down) and by the server's reply, so all three are part of the state.    *)
(* Every wrapper method is an operator from a "world" (connections,        *)
(* mailboxes, the client's handle, the commands sent so far) to the set of *)
(* outcomes the call can have; an action picks one outcome.                *)
(***************************************************************************)
EXTENDS Integers, Sequences, FiniteSets, TLC

VARIABLES
    conns,      \* every connection object IMAP4_SSL(...) has built, in order
    boxes,      \* the server's mailboxes: name -> [exists, msgs]
    imap,       \* self.__imap: 0 is None, else an index into conns
    ret,        \* the last wrapper call: what was called and how it ended
    pc,         \* the HTTP handler's position
    req,        \* the HTTP request's parameters
    emails_uids,\* get_emails: the identifiers search returned
    index,      \* get_emails: the loop variable of the batching loop
    emails,     \* get_emails: the accumulated messages
    windows,    \* get_emails: the uids_str of every fetch issued, in order
    response,   \* what the handler returned or raised
    threads     \* concurrent requests: each one's position, client and locals

vars == <<conns, boxes, imap, ret, pc, req, emails_uids, index, emails,
          windows, response, threads>>

(***************************************************************************)
(* Bounds.                                                                 *)
(***************************************************************************)
MaxMsgs == 2        \* messages in INBOX when a caller drives the client
MaxConns == 2       \* connections opened in one behaviour
MaxFound == 5       \* messages in INBOX when an HTTP request is served
MaxBatch == 3       \* largest batch_size a request carries
NumRequests == 2    \* requests served concurrently

(***************************************************************************)
(* Values.                                                                 *)
(***************************************************************************)
Names == {"INBOX", "Sent"}
NoneArg == "None"                       \* Python's None as an argument
NoneVal == <<"None">>                   \* Python's None inside response data
Deleted == "\\Deleted"
FlagOf(mailbox) == "\\" \o mailbox      \* f'\\{mailbox}'

(***************************************************************************)
(* Byte strings as token sequences: join and split.                        *)
(***************************************************************************)
RECURSIVE Join(_, _)
Join(sep, toks) ==
    IF toks = <<>> THEN <<>>
    ELSE IF Len(toks) = 1 THEN <<toks[1]>>
    ELSE <<toks[1], sep>> \o Join(sep, Tail(toks))

\* Python's bytes.split(): fields between runs of the separator, none empty.
RECURSIVE SplitWs(_, _)
SplitWs(sep, line) ==
    IF line = <<>> THEN <<>>
    ELSE IF line[1] = sep THEN SplitWs(sep, Tail(line))
    ELSE <<line[1]>> \o SplitWs(sep, Tail(line))

Range(s) == {s[i] : i \in 1..Len(s)}

\* The numbers that occur as sequence numbers or UIDs.
Nums == 1..(MaxMsgs + MaxFound)

\* The number a token of a message set denotes, 0 when it denotes none.
NumOf(tok) ==
    IF \E n \in Nums : ToString(n) = tok
    THEN CHOOSE n \in Nums : ToString(n) = tok
    ELSE 0

\* The server's reading of a message set "a,b,c": the numbers, or <<0>> when
\* the set is malformed (empty, or an empty or non-numeric element).
RECURSIVE ParseSet(_)
ParseSet(set) ==
    IF set = <<>> THEN <<0>>
    ELSE IF Len(set) = 1 THEN <<NumOf(set[1])>>
    ELSE IF set[2] # "," THEN <<0>>
    ELSE <<NumOf(set[1])>> \o ParseSet(Tail(Tail(set)))

RawOf(uid) == "raw" \o ToString(uid)            \* a message's RFC822 bytes
\* email.message_from_bytes: the parsed message of a raw message
message_from_bytes(raw) ==
    "msg" \o ToString(CHOOSE u \in Nums : RawOf(u) = raw)

(***************************************************************************)
(* The server.  A message is [uid, flags]; its sequence number is its      *)
(* position in the mailbox.  ServerReply is what a conforming server       *)
(* answers to one command on connection w.h: the tagged status, the        *)
(* untagged lines, and the mailboxes and selection afterwards.             *)
(***************************************************************************)
Sel(w) == w.conns[w.h].sel
SelOk(w) == Sel(w) \in Names /\ w.boxes[Sel(w)].exists
SelMsgs(w) == IF SelOk(w) THEN w.boxes[Sel(w)].msgs ELSE <<>>

Reply(typ, untagged, bx, sel) ==
    [typ |-> typ, untagged |-> untagged, boxes |-> bx, sel |-> sel]
Same(typ, untagged, w) == Reply(typ, untagged, w.boxes, Sel(w))

\* The sequence numbers 1..n that are in S, ascending.
PositionsIn(n, S) == SelectSeq([i \in 1..n |-> i], LAMBDA i : i \in S)
FlaggedPositions(msgs, flag) ==
    PositionsIn(Len(msgs), {i \in 1..Len(msgs) : flag \in msgs[i].flags})
Tokens(nums) == [i \in 1..Len(nums) |-> ToString(nums[i])]

ValidSet(nums, n) == \A i \in 1..Len(nums) : nums[i] \in 1..n

\* One FETCH response per message of the set, in mailbox order: imaplib hands
\* each over as a (envelope, RFC822 bytes) pair followed by the closing b')'.
RECURSIVE FetchLines(_, _)
FetchLines(msgs, positions) ==
    IF positions = <<>> THEN <<>>
    ELSE << <<"pair", ToString(positions[1]), RawOf(msgs[positions[1]].uid)>>,
            <<")">> >> \o FetchLines(msgs, Tail(positions))

Delims == {"/", "."}        \* hierarchy delimiters servers report
ListLine(d, name) ==
    <<"(\\HasNoChildren)", " ", "\"" \o d \o "\"", " ", "\"" \o name \o "\"">>
Matches(name, pattern) ==
    \/ pattern = "*"
    \/ pattern = "S*" /\ name = "Sent"
ListLines(d, bx, pattern) ==
    (IF bx["INBOX"].exists /\ Matches("INBOX", pattern)
     THEN <<ListLine(d, "INBOX")>> ELSE <<>>)
    \o (IF bx["Sent"].exists /\ Matches("Sent", pattern)
        THEN <<ListLine(d, "Sent")>> ELSE <<>>)

NoBox == [exists |-> FALSE, msgs |-> <<>>]

ServerReply(name, args, w) ==
    LET msgs == SelMsgs(w)
        n    == Len(msgs)
    IN
    CASE name = "NOOP" -> {Same("OK", <<>>, w)}
      [] name = "LOGIN" ->
            {Same(IF args[2] = "good" THEN "OK" ELSE "NO", <<>>, w)}
      [] name = "LOGOUT" -> {Same("OK", <<>>, w)}
      [] name = "SELECT" ->
            IF args = <<>> THEN {Same("BAD", <<>>, w)}
            ELSE IF args[1] \in Names /\ w.boxes[args[1]].exists
            THEN {Reply("OK", <<>>, w.boxes, args[1])}
            ELSE {Reply("NO", <<>>, w.boxes, "")}
      [] name = "SEARCH" ->
            IF ~SelOk(w) THEN {Same("NO", <<>>, w)}
            ELSE IF args = <<"ALL">>
            THEN {Same("OK", << Join(" ", Tokens(PositionsIn(n, 1..n))) >>, w),
                  Same("NO", <<>>, w)}
            ELSE IF args = <<"DELETED">>
            THEN {Same("OK", << Join(" ", Tokens(FlaggedPositions(msgs, Deleted))) >>, w),
                  Same("NO", <<>>, w)}
            ELSE {Same("BAD", <<>>, w)}
      [] name = "FETCH" ->
            LET nums == ParseSet(args[1]) IN
            IF ~SelOk(w) THEN {Same("NO", <<>>, w)}
            ELSE IF ~ValidSet(nums, n) THEN {Same("BAD", <<>>, w)}
            ELSE {Same("OK", FetchLines(msgs, PositionsIn(n, Range(nums))), w),
                  Same("NO", <<>>, w)}
      [] name = "STORE" ->
            LET nums == ParseSet(args[1])
                flag == args[3]
                set  == [i \in 1..n |->
                           IF i \in Range(nums)
                           THEN [msgs[i] EXCEPT !.flags = @ \cup {flag}]
                           ELSE msgs[i]]
            IN
            IF ~SelOk(w) THEN {Same("NO", <<>>, w)}
            ELSE IF ~ValidSet(nums, n) THEN {Same("BAD", <<>>, w)}
            ELSE IF flag = Deleted
            THEN {Reply("OK", <<>>, [w.boxes EXCEPT ![Sel(w)].msgs = set], Sel(w)),
                  Same("NO", <<>>, w)}
            \* a flag that is no system flag: stored as given, or refused
            ELSE {Reply("OK", <<>>, [w.boxes EXCEPT ![Sel(w)].msgs = set], Sel(w)),
                  Same("BAD", <<>>, w)}
      [] name = "EXPUNGE" ->
            IF ~SelOk(w) THEN {Same("NO", <<>>, w)}
            ELSE {Reply("OK", <<>>,
                        [w.boxes EXCEPT ![Sel(w)].msgs =
                            SelectSeq(msgs, LAMBDA m : Deleted \notin m.flags)],
                        Sel(w))}
      [] name = "LIST" ->
            {Same("OK", ListLines(d, w.boxes, args[2]), w) : d \in Delims}
            \cup {Same("NO", <<>>, w)}
      [] name = "CREATE" ->
            IF args = <<>> THEN {Same("BAD", <<>>, w)}
            ELSE IF args[1] \notin Names \/ w.boxes[args[1]].exists
            THEN {Same("NO", <<>>, w)}
            ELSE {Reply("OK", <<>>,
                        [w.boxes EXCEPT ![args[1]] = [exists |-> TRUE, msgs |-> <<>>]],
                        Sel(w))}
      [] name = "DELETE" ->
            IF args = <<>> THEN {Same("BAD", <<>>, w)}
            ELSE IF args[1] \notin Names \/ ~w.boxes[args[1]].exists
                    \/ args[1] = "INBOX"
            THEN {Same("NO", <<>>, w)}
            ELSE {Reply("OK", <<>>, [w.boxes EXCEPT ![args[1]] = NoBox], Sel(w))}
      [] name = "RENAME" ->
            IF Len(args) < 2 THEN {Same("BAD", <<>>, w)}
            ELSE IF args[1] \notin Names \/ args[2] \notin Names
                    \/ ~w.boxes[args[1]].exists \/ w.boxes[args[2]].exists
                    \/ args[1] = "INBOX"
            THEN {Same("NO", <<>>, w)}
            ELSE {Reply("OK", <<>>,
                        [w.boxes EXCEPT ![args[2]] = w.boxes[args[1]],
                                        ![args[1]] = NoBox],
                        Sel(w))}

(***************************************************************************)
(* imaplib.  A library call ends in one of                                 *)
(*   "resp"    it returned (typ, data), typ being "OK" or "NO";            *)
(*   "error"   it raised IMAP4.error (a command illegal in the current     *)
(*             state, a BAD reply, a rejected LOGIN);                      *)
(*   "abort"   it raised IMAP4.abort, a subclass of IMAP4.error (the send  *)
(*             failed, or the server closed the connection);               *)
(*   "oserror" it raised OSError (the read failed: reset, timeout), which  *)
(*             imaplib does not wrap.                                      *)
(* The link of a connection is "up"; or "closed": the peer closed or reset *)
(* it, and a send or read fails as IMAP4.abort (the read that meets the    *)
(* reset itself raises OSError); or "hung": nothing arrives, the read      *)
(* times out with OSError and so does every read after it.                 *)
(***************************************************************************)
\* a library that lets the mailbox commands through without a selection
Commands_lax ==
    [NOOP    |-> {"NONAUTH", "AUTH", "SELECTED", "LOGOUT"},
     LOGIN   |-> {"NONAUTH"},
     LOGOUT  |-> {"NONAUTH", "AUTH", "SELECTED", "LOGOUT"},
     SELECT  |-> {"AUTH", "SELECTED"},
     SEARCH  |-> {"AUTH", "SELECTED"},
     FETCH   |-> {"AUTH", "SELECTED"},
     STORE   |-> {"AUTH", "SELECTED"},
     EXPUNGE |-> {"AUTH", "SELECTED"},
     LIST    |-> {"AUTH", "SELECTED"},
     CREATE  |-> {"AUTH", "SELECTED"},
     DELETE  |-> {"AUTH", "SELECTED"},
     RENAME  |-> {"AUTH", "SELECTED"}]
Commands ==
    [NOOP    |-> {"NONAUTH", "AUTH", "SELECTED", "LOGOUT"},
     LOGIN   |-> {"NONAUTH"},
     LOGOUT  |-> {"NONAUTH", "AUTH", "SELECTED", "LOGOUT"},
     SELECT  |-> {"AUTH", "SELECTED"},
     SEARCH  |-> {"SELECTED"},
     FETCH   |-> {"SELECTED"},
     STORE   |-> {"SELECTED"},
     EXPUNGE |-> {"SELECTED"},
     LIST    |-> {"AUTH", "SELECTED"},
     CREATE  |-> {"AUTH", "SELECTED"},
     DELETE  |-> {"AUTH", "SELECTED"},
     RENAME  |-> {"AUTH", "SELECTED"}]

LibRaise(w, kind) == [w |-> w, kind |-> kind, typ |-> "", data |-> <<>>]
LibReturn(w, typ, data) == [w |-> w, kind |-> "resp", typ |-> typ, data |-> data]

\* IMAP4._command leaves out the arguments that are None.
Sent(args) == SelectSeq(args, LAMBDA a : a # NoneArg)

\* IMAP4._simple_command: the state check, the send, the tagged response.
\* data here is the untagged lines the command collected.
simple_command(w, name, args) ==
    LET c == w.conns[w.h] IN
    IF c.state \notin Commands[name] THEN {LibRaise(w, "error")}
    ELSE IF ~c.sock THEN {LibRaise(w, "abort")}
    ELSE LET w1 == [w EXCEPT !.io = Append(@, name)]
             closed == [w1 EXCEPT !.conns[w.h].link = "closed", !.conns[w.h].sel = ""]
             hung   == [w1 EXCEPT !.conns[w.h].link = "hung", !.conns[w.h].sel = ""]
         IN
         IF c.link = "closed" THEN {LibRaise(w1, "abort")}
         ELSE IF c.link = "hung" THEN {LibRaise(w1, "oserror")}
         ELSE {LibRaise(closed, "abort"), LibRaise(closed, "oserror"),
               LibRaise(hung, "oserror")}
              \cup { IF r.typ = "BAD"
                     THEN LibRaise(w1, "error")
                     ELSE LibReturn([w1 EXCEPT !.boxes = r.boxes,
                                               !.conns[w.h].sel = r.sel],
                                    r.typ, r.untagged)
                     : r \in ServerReply(name, args, w1) }

\* IMAP4._untagged_response
untagged_response(o) ==
    IF o.kind # "resp" \/ o.typ = "NO" THEN [o EXCEPT !.data = <<>>]
    ELSE IF o.data = <<>> THEN [o EXCEPT !.data = <<NoneVal>>]
    ELSE o

SetState(w, st) == [w EXCEPT !.conns[w.h].state = st]

\* How each library call ended is kept in the world, in call order: the
\* status it returned, or the kind of exception it raised.
Lib(name, outcomes) ==
    { [o EXCEPT !.w.lib = Append(@, [cmd |-> name,
                                     out |-> IF o.kind = "resp" THEN o.typ ELSE o.kind])]
      : o \in outcomes }

lib_noop(w) == Lib("NOOP", simple_command(w, "NOOP", <<>>))

lib_login(w, user, password) == Lib("LOGIN",
    { IF o.kind # "resp" THEN o
      ELSE IF o.typ # "OK" THEN LibRaise(o.w, "error")
      ELSE [o EXCEPT !.w = SetState(o.w, "AUTH")]
      : o \in simple_command(w, "LOGIN", <<user, password>>) })

\* IMAP4.logout and IMAP4.shutdown: the socket is closed only when the
\* LOGOUT command came back.
lib_logout(w) == Lib("LOGOUT",
    { IF o.kind # "resp" THEN o
      ELSE [o EXCEPT !.w.conns[w.h] = [@ EXCEPT !.sock = FALSE, !.link = "closed", !.sel = ""]]
      : o \in simple_command(SetState(w, "LOGOUT"), "LOGOUT", <<>>) })

\* IMAP4.select: a NO is returned, not raised, and leaves the state AUTH.
lib_select(w, mailbox) == Lib("SELECT",
    { IF o.kind # "resp" THEN o
      ELSE IF o.typ # "OK" THEN [o EXCEPT !.w = SetState(o.w, "AUTH")]
      ELSE [o EXCEPT !.w = SetState(o.w, "SELECTED")]
      : o \in simple_command(w, "SELECT", Sent(<<mailbox>>)) })

lib_search(w, criteria) == Lib("SEARCH",
    { untagged_response(o) : o \in simple_command(w, "SEARCH", <<criteria>>) })
lib_fetch(w, message_set, parts) == Lib("FETCH",
    { untagged_response(o) : o \in simple_command(w, "FETCH", <<message_set, parts>>) })
lib_store(w, message_set, command, flags) == Lib("STORE",
    { untagged_response(o)
      : o \in simple_command(w, "STORE", <<message_set, command, flags>>) })
lib_expunge(w) == Lib("EXPUNGE",
    { untagged_response(o) : o \in simple_command(w, "EXPUNGE", <<>>) })
lib_list(w, directory, pattern) == Lib("LIST",
    { untagged_response(o) : o \in simple_command(w, "LIST", <<directory, pattern>>) })
lib_create(w, mailbox) == Lib("CREATE", simple_command(w, "CREATE", Sent(<<mailbox>>)))
lib_delete(w, mailbox) == Lib("DELETE", simple_command(w, "DELETE", Sent(<<mailbox>>)))
lib_rename(w, old, new) == Lib("RENAME", simple_command(w, "RENAME", Sent(<<old, new>>)))

\* IMAP4_SSL(host, port, ...): the socket and TLS handshake, then the
\* greeting.  A new connection object exists only when both went through.
NewConn == [state |-> "NONAUTH", sock |-> TRUE, link |-> "up", sel |-> ""]
IMAP4_SSL(w) ==
    LET w1 == [w EXCEPT !.io = Append(@, "OPEN")] IN
    Lib("OPEN",
        {[w |-> w1, kind |-> "oserror", typ |-> "", new |-> 0],
         [w |-> w1, kind |-> "error", typ |-> "", new |-> 0]}
        \cup (IF Len(w.conns) < MaxConns
              THEN {[w |-> [w1 EXCEPT !.conns = Append(@, NewConn)],
                     kind |-> "resp", typ |-> "OK", new |-> Len(w.conns) + 1]}
              ELSE {}))

(***************************************************************************)
(* IMAP4_Client.  A method's outcome is [w, exc, val]: the world after the *)
(* call, the exception it raised ("none" when it returned) and the value   *)
(* it returned (a sequence; <<>> for None).                                *)
(***************************************************************************)
Raise(w, e) == [w |-> w, exc |-> e, val |-> <<>>]
Return(w, v) == [w |-> w, exc |-> "none", val |-> v]

\* is_logged: False without a handle; else NOOP, True when it returns, False
\* when it raises IMAP4.error; anything else it raises escapes.
\* an is_logged that never finds the session logged in
is_logged_never(w) == {[w |-> w, exc |-> "none", v |-> FALSE]}
is_logged(w) ==
    IF w.h = 0 THEN {[w |-> w, exc |-> "none", v |-> FALSE]}
    ELSE { CASE o.kind = "resp" -> [w |-> o.w, exc |-> "none", v |-> TRUE]
             [] o.kind \in {"error", "abort"} ->
                    [w |-> o.w, exc |-> "none", v |-> FALSE]
             [] OTHER -> [w |-> o.w, exc |-> "OSError", v |-> FALSE]
           : o \in lib_noop(w) }

\* The gate every operation starts with:
\*     if not self.is_logged(): raise ConnectionError(...)
\* An outcome that raised nothing is the world the probe left, on which the
\* operation's try block then runs.
Gate(w) ==
    { IF l.exc # "none" THEN Raise(l.w, l.exc)
      ELSE IF ~l.v THEN Raise(l.w, "ConnectionError")
      ELSE Return(l.w, <<>>)
      : l \in is_logged(w) }

\* except Exception as e: raise RuntimeError(...)
Wrapped(o, v) == IF o.kind # "resp" THEN Raise(o.w, "RuntimeError") ELSE Return(o.w, v)

\* connect without the is_logged() short-circuit of lines 43-44
connect_always(w, account, password) ==
    UNION { IF l.exc # "none" THEN {Raise(l.w, l.exc)}
            ELSE UNION {
                IF n.kind = "oserror" THEN {Raise(n.w, "OSError")}
                ELSE IF n.kind # "resp" THEN {Raise(n.w, "ConnectionError")}
                ELSE { CASE o.kind = "resp" -> Return(o.w, <<>>)
                         [] o.kind \in {"error", "abort"} ->
                                Raise(o.w, "ConnectionError")
                         [] OTHER -> Raise(o.w, "OSError")
                       : o \in lib_login([n.w EXCEPT !.h = n.new], account, password) }
                : n \in IMAP4_SSL(l.w) }
            : l \in is_logged(w) }
connect(w, account, password) ==
    UNION { IF l.exc # "none" THEN {Raise(l.w, l.exc)}
            ELSE IF l.v THEN {Return(l.w, <<>>)}
            ELSE UNION {
                IF n.kind = "oserror" THEN {Raise(n.w, "OSError")}
                ELSE IF n.kind # "resp" THEN {Raise(n.w, "ConnectionError")}
                ELSE { CASE o.kind = "resp" -> Return(o.w, <<>>)
                         [] o.kind \in {"error", "abort"} ->
                                Raise(o.w, "ConnectionError")
                         [] OTHER -> Raise(o.w, "OSError")
                       : o \in lib_login([n.w EXCEPT !.h = n.new], account, password) }
                : n \in IMAP4_SSL(l.w) }
            : l \in is_logged(w) }

disconnect(w) ==
    UNION { IF l.exc # "none" THEN {Raise(l.w, l.exc)}
            ELSE IF ~l.v THEN {Return(l.w, <<>>)}
            ELSE { Wrapped(o, <<>>) : o \in lib_logout(l.w) }
            : l \in is_logged(w) }

select_mailbox(w, mailbox) ==
    UNION { IF g.exc # "none" THEN {g}
            ELSE { Wrapped(o, <<>>) : o \in lib_select(g.w, mailbox) }
            : g \in Gate(w) }

\* data[0].split() when the status is OK, [] otherwise; data[0] is None when
\* the server sent no untagged SEARCH line, and None has no split.
search_emails(w, criteria) ==
    UNION { IF g.exc # "none" THEN {g}
            ELSE { IF o.kind # "resp" THEN Raise(o.w, "RuntimeError")
                   ELSE IF o.typ # "OK" THEN Return(o.w, <<>>)
                   ELSE IF o.data[1] = NoneVal THEN Raise(o.w, "RuntimeError")
                   ELSE Return(o.w, SplitWs(" ", o.data[1]))
                   : o \in lib_search(g.w, criteria) }
            : g \in Gate(w) }

\* data[::2]
EverySecond(data) == [i \in 1..((Len(data) + 1) \div 2) |-> data[2 * i - 1]]

\* [message_from_bytes(message) for _, message in data[::2]]: an element
\* that is no pair (None, a bare b')') does not unpack.
fetch_emails(w, uids) ==
    UNION { IF g.exc # "none" THEN {g}
            ELSE { LET items == EverySecond(o.data) IN
                   IF o.kind # "resp" THEN Raise(o.w, "RuntimeError")
                   ELSE IF o.typ # "OK" THEN Return(o.w, <<>>)
                   ELSE IF \E i \in 1..Len(items) : items[i][1] # "pair"
                   THEN Raise(o.w, "RuntimeError")
                   ELSE Return(o.w, [i \in 1..Len(items) |-> message_from_bytes(items[i][3])])
                   : o \in lib_fetch(g.w, uids, "(RFC822)") }
            : g \in Gate(w) }

\* store(messages_uid, '+FLAGS', flag) then expunge(), in one try block;
\* neither status is looked at.
\* store and expunge with the expunge issued whatever the store did
StoreExpunge_anyway(x, messages_uid, flag) ==
    UNION { { Wrapped(e, <<>>) : e \in lib_expunge(s.w) }
            : s \in lib_store(x, messages_uid, "+FLAGS", flag) }
StoreExpunge(x, messages_uid, flag) ==
    UNION { IF s.kind # "resp" THEN {Raise(s.w, "RuntimeError")}
            ELSE { Wrapped(e, <<>>) : e \in lib_expunge(s.w) }
            : s \in lib_store(x, messages_uid, "+FLAGS", flag) }

delete_emails(w, messages_uid) ==
    UNION { IF g.exc # "none" THEN {g}
            ELSE StoreExpunge(g.w, messages_uid, Deleted)
            : g \in Gate(w) }

\* move_emails storing \Deleted instead of the flag built from mailbox
move_emails_deleting(w, messages_uid, mailbox) ==
    UNION { IF g.exc # "none" THEN {g}
            ELSE StoreExpunge(g.w, messages_uid, Deleted)
            : g \in Gate(w) }
move_emails(w, messages_uid, mailbox) ==
    UNION { IF g.exc # "none" THEN {g}
            ELSE StoreExpunge(g.w, messages_uid, FlagOf(mailbox))
            : g \in Gate(w) }

\* str.split(sep) for a separator of three tokens: the parts around its
\* occurrences, each part a token sequence.
ListSep == <<" ", "\"/\"", " ">>
RECURSIVE SplitOn(_, _)
SplitOn(line, part) ==
    IF line = <<>> THEN <<part>>
    ELSE IF Len(line) >= 3 /\ SubSeq(line, 1, 3) = ListSep
    THEN <<part>> \o SplitOn(SubSeq(line, 4, Len(line)), <<>>)
    ELSE SplitOn(Tail(line), Append(part, line[1]))

RECURSIVE Text(_)
Text(toks) == IF toks = <<>> THEN "" ELSE toks[1] \o Text(Tail(toks))

\* [mailbox.decode().split(' "/" ')[1] for mailbox in data]: None has no
\* decode, and a line without the separator has no part [1].
list_mailboxes(w, directory, pattern) ==
    UNION { IF g.exc # "none" THEN {g}
            ELSE { IF o.kind # "resp" THEN Raise(o.w, "RuntimeError")
                   ELSE IF o.typ # "OK" THEN Return(o.w, <<>>)
                   ELSE IF \E i \in 1..Len(o.data) :
                              \/ o.data[i] = NoneVal
                              \/ Len(SplitOn(o.data[i], <<>>)) < 2
                   THEN Raise(o.w, "RuntimeError")
                   ELSE Return(o.w, [i \in 1..Len(o.data) |-> Text(SplitOn(o.data[i], <<>>)[2])])
                   : o \in lib_list(g.w, directory, pattern) }
            : g \in Gate(w) }

rename_mailbox(w, old_mailbox, new_mailbox) ==
    UNION { IF g.exc # "none" THEN {g}
            ELSE { Wrapped(o, <<>>) : o \in lib_rename(g.w, old_mailbox, new_mailbox) }
            : g \in Gate(w) }

new_mailbox(w, mailbox) ==
    UNION { IF g.exc # "none" THEN {g}
            ELSE { Wrapped(o, <<>>) : o \in lib_create(g.w, mailbox) }
            : g \in Gate(w) }

delete_mailbox(w, mailbox) ==
    UNION { IF g.exc # "none" THEN {g}
            ELSE { Wrapped(o, <<>>) : o \in lib_delete(g.w, mailbox) }
            : g \in Gate(w) }

(***************************************************************************)
(* The state after construction, and a caller that calls the methods of    *)
(* one client in any order with any arguments.                             *)
(***************************************************************************)
Credentials == {"good", "bad"}
MailboxArgs == Names \cup {NoneArg}
Criteria == {"ALL", "DELETED", "BOGUS"}
Patterns == {"*", "S*", "zzz"}
\* the message sets a caller passes: "1", "2", "1,2", ...
UidArgs == { Join(",", Tokens(PositionsIn(MaxMsgs, S)))
             : S \in (SUBSET (1..MaxMsgs)) \ {{}} }

\* n is the parity of the number of calls made: two calls in a row never
\* leave the same record.
NoCall == [op |-> "none", arg |-> <<>>, exc |-> "none", val |-> <<>>, io |-> <<>>,
           lib |-> <<>>, n |-> 0]

\* INBOX holds any ascending run of UIDs, unflagged; Sent may exist, empty.
InitBoxes ==
    { [nm \in Names |->
         IF nm = "INBOX"
         THEN [exists |-> TRUE,
               msgs |-> [i \in 1..Len(PositionsIn(MaxMsgs, S)) |->
                           [uid |-> PositionsIn(MaxMsgs, S)[i], flags |-> {}]]]
         ELSE [exists |-> sent, msgs |-> <<>>]]
      : S \in SUBSET (1..MaxMsgs), sent \in BOOLEAN }

NoRequest == [handler |-> "none", password |-> "good", mailbox |-> NoneArg,
              criteria |-> "ALL", batch_size |-> 1, pattern |-> "*"]
NoResponse == [status |-> "none", exc |-> "none", body |-> <<>>]

\* A request being served: its position, its parameters, the handle of the
\* client built for it, its locals, the exception it is leaving with, and
\* the connections it has sent commands on.
Requests == 1..NumRequests
IdleThread == [pc |-> "idle", req |-> NoRequest, imap |-> 0, emails_uids |-> <<>>,
               index |-> 0, exc |-> "none", used |-> {}]
NoThreads == [t \in Requests |-> IdleThread]

\* __init__: self.__imap = None
InitClient ==
    /\ conns = <<>>
    /\ imap = 0
    /\ boxes \in InitBoxes
    /\ ret = NoCall

Init ==
    /\ InitClient
    /\ pc = "idle"
    /\ req = NoRequest
    /\ emails_uids = <<>>
    /\ index = 0
    /\ emails = <<>>
    /\ windows = <<>>
    /\ response = NoResponse
    /\ threads = NoThreads

handlerVars == <<pc, req, emails_uids, index, emails, windows, response, threads>>

World == [conns |-> conns, boxes |-> boxes, h |-> imap, io |-> <<>>, lib |-> <<>>]

\* The call op(arg) ended as o.
Call(op, arg, o) ==
    /\ conns' = o.w.conns
    /\ boxes' = o.w.boxes
    /\ imap' = o.w.h
    /\ ret' = [op |-> op, arg |-> arg, exc |-> o.exc, val |-> o.val, io |-> o.w.io,
               lib |-> o.w.lib, n |-> 1 - ret.n]

CallIsLogged ==
    /\ \E o \in is_logged(World) :
          Call("is_logged", <<>>,
               [w |-> o.w, exc |-> o.exc, val |-> <<IF o.v THEN "True" ELSE "False">>])
    /\ UNCHANGED handlerVars

CallConnect ==
    /\ \E password \in Credentials : \E o \in connect(World, "account", password) :
          Call("connect", <<password>>, o)
    /\ UNCHANGED handlerVars

CallDisconnect ==
    /\ \E o \in disconnect(World) : Call("disconnect", <<>>, o)
    /\ UNCHANGED handlerVars

CallSelectMailbox ==
    /\ \E mailbox \in MailboxArgs : \E o \in select_mailbox(World, mailbox) :
          Call("select_mailbox", <<mailbox>>, o)
    /\ UNCHANGED handlerVars

CallSearchEmails ==
    /\ \E criteria \in Criteria : \E o \in search_emails(World, criteria) :
          Call("search_emails", <<criteria>>, o)
    /\ UNCHANGED handlerVars

CallFetchEmails ==
    /\ \E uids \in UidArgs : \E o \in fetch_emails(World, uids) :
          Call("fetch_emails", uids, o)
    /\ UNCHANGED handlerVars

CallDeleteEmails ==
    /\ \E uids \in UidArgs : \E o \in delete_emails(World, uids) :
          Call("delete_emails", uids, o)
    /\ UNCHANGED handlerVars

CallMoveEmails ==
    /\ \E uids \in UidArgs : \E o \in move_emails(World, uids, "Sent") :
          Call("move_emails", uids, o)
    /\ UNCHANGED handlerVars

CallListMailboxes ==
    /\ \E pattern \in Patterns : \E o \in list_mailboxes(World, "\"\"", pattern) :
          Call("list_mailboxes", <<pattern>>, o)
    /\ UNCHANGED handlerVars

CallRenameMailbox ==
    /\ \E old \in Names, new \in Names : \E o \in rename_mailbox(World, old, new) :
          Call("rename_mailbox", <<old, new>>, o)
    /\ UNCHANGED handlerVars

CallNewMailbox ==
    /\ \E mailbox \in Names : \E o \in new_mailbox(World, mailbox) :
          Call("new_mailbox", <<mailbox>>, o)
    /\ UNCHANGED handlerVars

CallDeleteMailbox ==
    /\ \E mailbox \in Names : \E o \in delete_mailbox(World, mailbox) :
          Call("delete_mailbox", <<mailbox>>, o)
    /\ UNCHANGED handlerVars

Next ==
    \/ CallIsLogged
    \/ CallConnect
    \/ CallDisconnect
    \/ CallSelectMailbox
    \/ CallSearchEmails
    \/ CallFetchEmails
    \/ CallDeleteEmails
    \/ CallMoveEmails
    \/ CallListMailboxes
    \/ CallRenameMailbox
    \/ CallNewMailbox
    \/ CallDeleteMailbox

Spec == Init /\ [][Next]_vars

(***************************************************************************)
(* app/main.py: the HTTP handlers.  One request is served by one client    *)
(* built for it:   with IMAP4_Client(IMAP_SERVER) as client: ...           *)
(* The position pc runs  connect, select, search, range, loop (one fetch   *)
(* per step), exit (the with statement's __exit__), done.                  *)
(***************************************************************************)
BatchSizes == (-1)..MaxBatch
HandlerMailboxes == {NoneArg, "INBOX", "Sent"}

\* INBOX holds k messages, any of them flagged \Deleted (so that a search
\* can match any subsequence of the sequence numbers); UIDs differ from
\* sequence numbers.
HandlerBoxes ==
    { [nm \in Names |->
         IF nm = "INBOX"
         THEN [exists |-> TRUE,
               msgs |-> [i \in 1..k |->
                           [uid |-> i + 1,
                            flags |-> IF i \in F THEN {Deleted} ELSE {}]]]
         ELSE NoBox]
      : k \in 0..MaxFound, F \in SUBSET (1..MaxFound) }

HInit ==
    /\ conns = <<>>
    /\ imap = 0
    /\ boxes \in HandlerBoxes
    /\ ret = NoCall
    /\ pc = "idle"
    /\ req = NoRequest
    /\ emails_uids = <<>>
    /\ index = 0
    /\ emails = <<>>
    /\ windows = <<>>
    /\ response = NoResponse
    /\ threads = NoThreads

\* lst[i:j] of a Python list, 0 <= i <= j
Slice(lst, i, j) == SubSeq(lst, i + 1, IF j < Len(lst) THEN j ELSE Len(lst))

\* Whether range(0, n, step) still yields i, i being 0 or a value it
\* yielded plus step (step # 0): a negative step yields nothing from 0.
InRange(i, n, step) == step > 0 /\ i < n

\* batch_uids = emails_uids[index:index + batch_size]
batch_uids_overlap == Slice(emails_uids, index, index + req.batch_size + 1)
batch_uids == Slice(emails_uids, index, index + req.batch_size)

\* uids_str = ','.join(map(lambda x: x.decode(), batch_uids))
uids_str == Join(",", batch_uids)

\* emails.extend(batch_emails)
extend_replace(lst, more) == more
extend(lst, more) == lst \o more

Raising(e) == [status |-> "raising", exc |-> e, body |-> <<>>]

\* After a call of the with body: on to pc next, or out through __exit__
\* with the exception.
\* a with body that goes on after a call that raised
Then_swallow(o, next) == pc' = next /\ UNCHANGED response
Then(o, next) ==
    IF o.exc = "none"
    THEN pc' = next /\ UNCHANGED response
    ELSE pc' = "exit" /\ response' = Raising(o.exc)

GetEmails ==
    /\ pc = "idle"
    /\ \E mailbox \in HandlerMailboxes, criteria \in Criteria,
          batch_size \in BatchSizes, password \in Credentials :
          req' = [handler |-> "get_emails", password |-> password,
                  mailbox |-> mailbox, criteria |-> criteria,
                  batch_size |-> batch_size, pattern |-> "*"]
    /\ pc' = "connect"
    /\ UNCHANGED <<conns, boxes, imap, ret, emails_uids, index, emails, windows,
                   response, threads>>

GetMailboxes ==
    /\ pc = "idle"
    /\ \E pattern \in Patterns, password \in Credentials :
          req' = [handler |-> "get_mailboxes", password |-> password,
                  mailbox |-> NoneArg, criteria |-> "ALL", batch_size |-> 1,
                  pattern |-> pattern]
    /\ pc' = "connect"
    /\ UNCHANGED <<conns, boxes, imap, ret, emails_uids, index, emails, windows,
                   response, threads>>

\* client.connect(USERNAME, PASSWORD)
StepConnect ==
    /\ pc = "connect"
    /\ \E o \in connect(World, "USERNAME", req.password) :
          /\ Call("connect", <<req.password>>, o)
          /\ Then(o, IF req.handler = "get_emails" THEN "select" ELSE "list")
    /\ UNCHANGED <<req, emails_uids, index, emails, windows, threads>>

\* client.select_mailbox(mailbox)
StepSelect ==
    /\ pc = "select"
    /\ \E o \in select_mailbox(World, req.mailbox) :
          /\ Call("select_mailbox", <<req.mailbox>>, o)
          /\ Then(o, "search")
    /\ UNCHANGED <<req, emails_uids, index, emails, windows, threads>>

\* emails_uids = client.search_emails(criteria); emails = []
StepSearch ==
    /\ pc = "search"
    /\ \E o \in search_emails(World, req.criteria) :
          /\ Call("search_emails", <<req.criteria>>, o)
          /\ Then(o, "range")
          /\ emails_uids' = o.val
    /\ emails' = <<>>
    /\ UNCHANGED <<req, index, windows, threads>>

\* for index in range(0, len(emails_uids), batch_size): range() refuses a
\* step of zero with ValueError.
StepRange ==
    /\ pc = "range"
    /\ IF req.batch_size = 0
       THEN pc' = "exit" /\ response' = Raising("ValueError") /\ UNCHANGED index
       ELSE pc' = "loop" /\ index' = 0 /\ UNCHANGED response
    /\ UNCHANGED <<conns, boxes, imap, ret, req, emails_uids, emails, windows, threads>>

\* One turn of the loop: the slice, the join, the fetch, the extend.
StepFetch ==
    /\ pc = "loop"
    /\ InRange(index, Len(emails_uids), req.batch_size)
    /\ \E o \in fetch_emails(World, uids_str) :
          /\ Call("fetch_emails", uids_str, o)
          /\ Then(o, "loop")
          /\ windows' = Append(windows, [uids |-> uids_str, exc |-> o.exc, got |-> o.val])
          /\ IF o.exc = "none"
             THEN emails' = extend(emails, o.val) /\ index' = index + req.batch_size
             ELSE UNCHANGED <<emails, index>>
    /\ UNCHANGED <<req, emails_uids, threads>>

\* The range is exhausted: the with body is left normally.
StepLoopEnd ==
    /\ pc = "loop"
    /\ ~InRange(index, Len(emails_uids), req.batch_size)
    /\ pc' = "exit"
    /\ response' = [status |-> "returning", exc |-> "none", body |-> emails]
    /\ UNCHANGED <<conns, boxes, imap, ret, req, emails_uids, index, emails, windows, threads>>

\* mailboxes = client.list_mailboxes(directory.encode(), pattern.encode())
StepList ==
    /\ pc = "list"
    /\ \E o \in list_mailboxes(World, "\"\"", req.pattern) :
          /\ Call("list_mailboxes", <<req.pattern>>, o)
          /\ pc' = "exit"
          /\ response' = IF o.exc = "none"
                         THEN [status |-> "returning", exc |-> "none", body |-> o.val]
                         ELSE Raising(o.exc)
    /\ UNCHANGED <<req, emails_uids, index, emails, windows, threads>>

\* __exit__: self.disconnect().  What disconnect raises replaces what the
\* body raised; otherwise the body's exception goes on, or the handler
\* returns {"emails": emails} / {"mailboxes": mailboxes}.
StepExit ==
    /\ pc = "exit"
    /\ \E o \in disconnect(World) :
          /\ Call("disconnect", <<>>, o)
          /\ response' =
                IF o.exc # "none"
                THEN [status |-> "raised", exc |-> o.exc, body |-> <<>>]
                ELSE IF response.status = "raising"
                THEN [response EXCEPT !.status = "raised"]
                ELSE [response EXCEPT !.status = "returned"]
    /\ pc' = "done"
    /\ UNCHANGED <<req, emails_uids, index, emails, windows, threads>>

HNext ==
    \/ GetEmails
    \/ GetMailboxes
    \/ StepConnect
    \/ StepSelect
    \/ StepSearch
    \/ StepRange
    \/ StepFetch
    \/ StepLoopEnd
    \/ StepList
    \/ StepExit

HSpec == HInit /\ [][HNext]_vars

(***************************************************************************)
(* Properties.  A property about one call reads ret, the record of the     *)
(* last call; a property about a call made in a given state is an action   *)
(* property over the state before the call and ret after it.               *)
(***************************************************************************)
\* A call was made in this step.
Called(op) == ret'.n # ret.n /\ ret'.op = op

\* The session holds a logged-in connection whose link is up.
Authenticated ==
    /\ imap # 0
    /\ conns[imap].state \in {"AUTH", "SELECTED"}
    /\ conns[imap].sock
    /\ conns[imap].link = "up"

\* The library call the wrapper call recorded in r made last, and how it
\* ended.
LastLib(r) == IF r.lib = <<>> THEN [cmd |-> "", out |-> ""] ELSE r.lib[Len(r.lib)]

\* The session has never connected, or its connect failed at login (the
\* server is there and has not let it in), or it has been disconnected.
Unauthenticated ==
    \/ imap = 0
    \/ conns[imap].state = "NONAUTH" /\ conns[imap].link = "up"
    \/ conns[imap].state = "LOGOUT" /\ ~conns[imap].sock

GatedOps == {"select_mailbox", "search_emails", "fetch_emails", "delete_emails",
             "move_emails", "list_mailboxes", "rename_mailbox", "new_mailbox",
             "delete_mailbox"}

\* C1: every mailbox or message operation called on a session that is not
\* authenticated (never connected, connect failed at login, or disconnected)
\* fails with ConnectionError and sends nothing to the server (the link
\* being, after the call, as it was before it).
C1_UnauthenticatedRefused ==
    [][(/\ Unauthenticated
        /\ ret'.n # ret.n /\ ret'.op \in GatedOps
        /\ imap # 0 => conns'[imap].link = conns[imap].link)
         => (ret'.exc = "ConnectionError" /\ ret'.io = <<>>)]_vars

\* C2: of two disconnect() calls in a row the second raises nothing and
\* sends no LOGOUT.
C2_DisconnectTwice ==
    [][(ret.op = "disconnect" /\ Called("disconnect"))
         => (ret'.exc = "none" /\ "LOGOUT" \notin Range(ret'.io))]_vars

\* C3: connect() on an authenticated session (one whose health probe is
\* answered) returns normally having sent the probe only: no connection is
\* opened, no LOGIN is sent, the handle and every connection stay as they were.
C3_ConnectWhenAuthenticated ==
    [][(Authenticated /\ Called("connect") /\ conns'[imap].link = "up")
         => /\ ret'.exc = "none"
            /\ ret'.io = <<"NOOP">>
            /\ imap' = imap
            /\ conns' = conns
            /\ boxes' = boxes]_vars

\* C3, its case: a connect() that returned from the probe alone on a
\* logged-in connection, with either password.
C3_Witness ==
    /\ ret.op = "connect" /\ ret.arg = <<"bad">>
    /\ ret.exc = "none" /\ ret.io = <<"NOOP">>
    /\ imap # 0 /\ conns[imap].state = "SELECTED" /\ conns[imap].link = "up"
    /\ Len(conns) = 1

Ceil(n, b) == (n + b - 1) \div b

\* The i-th window of emails_uids for the request's batch_size.
Window(i) == Slice(emails_uids, (i - 1) * req.batch_size, i * req.batch_size)

RECURSIVE Flatten(_)
Flatten(seqs) == IF seqs = <<>> THEN <<>> ELSE seqs[1] \o Flatten(Tail(seqs))

NoFetchRaised == \A i \in 1..Len(windows) : windows[i].exc = "none"

\* C4: for batch_size b >= 1 and search result S, the fetches get_emails
\* issues are, in order, the contiguous windows S[0:b], S[b:2b], ...: each
\* is non-empty, at most b long, and there are never more than ceil(|S|/b);
\* when the loop has run to its end (no fetch raised) there are exactly
\* ceil(|S|/b) and their concatenation is S.
C4_Windows ==
    (req.handler = "get_emails" /\ req.batch_size >= 1) =>
        /\ Len(windows) <= Ceil(Len(emails_uids), req.batch_size)
        /\ \A i \in 1..Len(windows) :
              /\ SplitWs(",", windows[i].uids) = Window(i)
              /\ Len(Window(i)) \in 1..req.batch_size
        /\ (pc \in {"exit", "done"} /\ NoFetchRaised) =>
              /\ Len(windows) = Ceil(Len(emails_uids), req.batch_size)
              /\ Flatten([i \in 1..Len(windows) |-> SplitWs(",", windows[i].uids)])
                    = emails_uids

\* C4, its case: five identifiers fetched in windows of two, two and one.
C4_Witness ==
    /\ req.handler = "get_emails" /\ req.batch_size = 2
    /\ pc = "done" /\ response.status = "returned"
    /\ Len(emails_uids) = 5 /\ Len(windows) = 3
    /\ windows[3].uids = <<"5">>

\* The messages a conforming server holds under the sequence numbers ids.
MessagesOf(ids) ==
    [j \in 1..Len(ids) |->
        "msg" \o ToString(boxes["INBOX"].msgs[NumOf(ids[j])].uid)]

\* C5: for batch_size >= 1 the accumulated list is the concatenation, in
\* window order, of what each fetch returned; a fetch returns its window's
\* messages in order or, on a non-OK status, nothing; so the result is never
\* longer than the search result, and it is what the handler returns.
C5_Concatenation ==
    (req.handler = "get_emails" /\ req.batch_size >= 1) =>
        /\ emails = Flatten([i \in 1..Len(windows) |-> windows[i].got])
        /\ Len(emails) <= Len(emails_uids)
        /\ \A i \in 1..Len(windows) :
              windows[i].got \in {<<>>, MessagesOf(Window(i))}
        /\ response.status \in {"returning", "returned"} => response.body = emails

\* C5, its case: three windows, the middle one answered NO, the ones before
\* and after it fetched and returned.
C5_Witness ==
    /\ req.handler = "get_emails" /\ req.batch_size = 2
    /\ pc = "done" /\ response.status = "returned"
    /\ Len(windows) = 3
    /\ windows[1].got # <<>>
    /\ windows[2].exc = "none" /\ windows[2].got = <<>>
    /\ windows[3].got # <<>>
    /\ response.body = windows[1].got \o windows[3].got

\* C6: a request with batch_size <= 0 never returns a message list.
C6_NonPositiveBatchRefused ==
    (req.handler = "get_emails" /\ req.batch_size <= 0)
        => response.status # "returned"

\* C7: on an authenticated session search_emails, fetch_emails and
\* list_mailboxes, once their command is issued, return normally when the
\* status is OK, return the empty list and raise nothing when it is not, and
\* raise RuntimeError only when the command itself threw.
C7_StatusHandling ==
    [][(/\ Authenticated
        /\ ret'.n # ret.n
        /\ ret'.op \in {"search_emails", "fetch_emails", "list_mailboxes"}
        /\ LastLib(ret').cmd \in {"SEARCH", "FETCH", "LIST"})
         => /\ LastLib(ret').out = "OK" => ret'.exc = "none"
            /\ LastLib(ret').out = "NO" => (ret'.exc = "none" /\ ret'.val = <<>>)
            /\ ret'.exc = "RuntimeError"
                  => LastLib(ret').out \in {"error", "abort", "oserror"}]_vars

\* C8: a search that follows a successful delete_emails(ids) (the server
\* answered OK to the STORE and to the EXPUNGE) on the same mailbox returns
\* none of ids.
C8_DeletedNotFound ==
    [][(/\ ret.op = "delete_emails" /\ ret.exc = "none"
        /\ \A i \in 1..Len(ret.lib) : ret.lib[i].out = "OK"
        /\ Called("search_emails") /\ ret'.exc = "none")
         => Range(SplitWs(",", ret.arg)) \cap Range(ret'.val) = {}]_vars

\* C9: select_mailbox on an authenticated session raises RuntimeError
\* whenever the server rejects the mailbox, and returns normally only when
\* the mailbox has become the selected one.
C9_SelectRejected ==
    [][(Authenticated /\ Called("select_mailbox"))
         => /\ LastLib(ret') = [cmd |-> "SELECT", out |-> "NO"]
                  => ret'.exc = "RuntimeError"
            /\ ret'.exc = "none"
                  => /\ conns'[imap'].state = "SELECTED"
                     /\ conns'[imap'].sel = ret'.arg[1]]_vars

\* C10: connect() on a session that is not authenticated ends in one of two
\* ways only: it returns, logged in, or it raises ConnectionError; a network
\* failure or a rejected login raises ConnectionError.
C10_ConnectErrors ==
    [][(~Authenticated /\ Called("connect"))
         => /\ ret'.exc \in {"none", "ConnectionError"}
            /\ LastLib(ret').out \in {"error", "abort", "oserror"}
                  => ret'.exc = "ConnectionError"
            /\ ret'.exc = "none"
                  => conns'[imap'].state \in {"AUTH", "SELECTED"}]_vars

\* C11: when a handler has exited, by return or by exception, every
\* connection its client opened has had its logout sent and is closed.
C11_HandlerDisconnects ==
    pc = "done" =>
        \A i \in 1..Len(conns) : conns[i].state = "LOGOUT" /\ ~conns[i].sock

\* What STORE +FLAGS flag on the message set nums, and what EXPUNGE, make of
\* the messages of a mailbox.
FlagSet(msgs, nums, flag) ==
    [i \in 1..Len(msgs) |->
        IF i \in Range(nums) THEN [msgs[i] EXCEPT !.flags = @ \cup {flag}] ELSE msgs[i]]
Expunged(msgs) == SelectSeq(msgs, LAMBDA m : Deleted \notin m.flags)

AllOk(r) == \A i \in 1..Len(r.lib) : r.lib[i].out = "OK"

Count(seq, x) == Cardinality({i \in 1..Len(seq) : seq[i] = x})

\* C13: in a handler no command is sent twice by one call; fetches are
\* issued one at a time, each for the window at index, and index moves on
\* with every fetch that returned, so no window is fetched twice; a call of
\* the with body that raises takes the handler straight to its exit with
\* that error, no fetch follows, and the handler ends by raising.
C13_NoRetrySequential ==
    [][/\ ret'.n # ret.n => \A c \in Range(ret'.io) : Count(ret'.io, c) = 1
       /\ windows' # windows =>
             /\ ret'.n # ret.n /\ ret'.op = "fetch_emails"
             /\ windows' = Append(windows,
                                  [uids |-> Join(",", Slice(emails_uids, index,
                                                            index + req.batch_size)),
                                   exc |-> ret'.exc, got |-> ret'.val])
             /\ ret'.exc = "none" => index' > index
             /\ \A i \in 1..Len(windows) : windows[i].exc = "none"
       /\ (ret'.n # ret.n /\ ret'.op # "disconnect" /\ ret'.exc # "none") =>
             /\ pc' = "exit"
             /\ response' = Raising(ret'.exc)
       /\ response.status = "raising" =>
             /\ windows' = windows
             /\ ret'.op = "disconnect"
             /\ pc' = "done" /\ response'.status = "raised"]_vars

\* C13, its case: three identifiers in windows of one; the second fetch
\* raised, the third was never issued, and the handler raised that error.
C13_Witness ==
    /\ req.handler = "get_emails" /\ req.batch_size = 1
    /\ Len(emails_uids) = 3
    /\ pc = "done"
    /\ Len(windows) = 2
    /\ windows[1].exc = "none" /\ windows[2].exc = "RuntimeError"
    /\ response = [status |-> "raised", exc |-> "RuntimeError", body |-> <<>>]

LibCmds(r) == [i \in 1..Len(r.lib) |-> r.lib[i].cmd]
Threw(out) == out \notin {"OK", "NO"}

\* C14: delete_emails issues the STORE before the EXPUNGE, and the EXPUNGE
\* only when the STORE did not raise; when the STORE was accepted and the
\* EXPUNGE then fails, delete_emails raises RuntimeError and the mailbox is
\* left as the STORE made it: every message still there, those of ids
\* carrying \Deleted; nothing is undone.
C14_DeleteTwoStep ==
    [][Called("delete_emails") =>
         /\ LibCmds(ret') \in {<<>>, <<"NOOP">>, <<"NOOP", "STORE">>,
                               <<"NOOP", "STORE", "EXPUNGE">>}
         /\ Len(ret'.lib) = 3 => ~Threw(ret'.lib[2].out)
         /\ Len(ret'.lib) = 2 => (Threw(ret'.lib[2].out) /\ ret'.exc = "RuntimeError")
         /\ (Len(ret'.lib) = 3 /\ ret'.lib[2].out = "OK" /\ Threw(ret'.lib[3].out)) =>
               /\ ret'.exc = "RuntimeError"
               /\ boxes'[conns[imap].sel].msgs =
                     FlagSet(boxes[conns[imap].sel].msgs, ParseSet(ret'.arg), Deleted)
               /\ \A nm \in Names : nm # conns[imap].sel => boxes'[nm] = boxes[nm]]_vars

\* C14, its case: of two messages the first was flagged, the connection
\* failed at the EXPUNGE, delete_emails raised, and both messages are there.
C14_Witness ==
    /\ ret.op = "delete_emails" /\ ret.arg = <<"1">>
    /\ ret.exc = "RuntimeError"
    /\ Len(ret.lib) = 3 /\ ret.lib[2].out = "OK" /\ ret.lib[3].out = "abort"
    /\ Len(boxes["INBOX"].msgs) = 2
    /\ boxes["INBOX"].msgs[1].flags = {Deleted}
    /\ boxes["INBOX"].msgs[2].flags = {}

MessageOps == {"search_emails", "fetch_emails", "delete_emails", "move_emails"}

\* C15: search_emails, fetch_emails, delete_emails and move_emails called on
\* an authenticated session with no selected mailbox (none was ever selected,
\* or the last select was rejected) raise without sending their command:
\* they return nothing and change no mailbox; and whenever one of them
\* returns with a non-empty result or a change to a mailbox, the session had
\* an existing mailbox selected.
C15_NeedsSelection ==
    [][(ret'.n # ret.n /\ ret'.op \in MessageOps) =>
         /\ (Authenticated /\ conns[imap].state = "AUTH") =>
               /\ ret'.exc # "none"
               /\ ret'.val = <<>>
               /\ boxes' = boxes
               /\ ret'.io = <<"NOOP">>
         /\ (ret'.exc = "none" /\ (ret'.val # <<>> \/ boxes' # boxes)) =>
               /\ imap # 0
               /\ conns[imap].state = "SELECTED"
               /\ conns[imap].sel \in Names
               /\ boxes[conns[imap].sel].exists]_vars

\* C15, its case: a search on a logged-in session that has nothing selected,
\* INBOX holding two messages: the probe is answered, the search is refused
\* before it is sent.
C15_Witness ==
    /\ ret.op = "search_emails" /\ ret.arg = <<"ALL">>
    /\ ret.exc = "RuntimeError"
    /\ ret.lib = <<[cmd |-> "NOOP", out |-> "OK"], [cmd |-> "SEARCH", out |-> "error"]>>
    /\ ret.io = <<"NOOP">>
    /\ conns[imap].state = "AUTH" /\ conns[imap].link = "up" /\ conns[imap].sel = ""
    /\ Len(boxes["INBOX"].msgs) = 2

\* A connection is open while its socket has not been shut down and its
\* link is up.
IsOpen(c) == c.sock /\ c.link = "up"
OpenConns(cs) == {i \in 1..Len(cs) : IsOpen(cs[i])}

\* C16: a client never has more than one open connection, and the open one
\* is the one its handle holds: connect() builds a new connection or changes
\* the handle only when there was no handle or the connection it held is no
\* longer open.
C16_OneConnection ==
    [][/\ Cardinality(OpenConns(conns')) <= 1
       /\ OpenConns(conns') \subseteq {imap'}
       /\ (Len(conns') # Len(conns) \/ imap' # imap) =>
             /\ ret'.n # ret.n /\ ret'.op = "connect"
             /\ Len(conns') = Len(conns) + 1 /\ imap' = Len(conns')
             /\ imap = 0 \/ ~IsOpen(conns'[imap])]_vars

\* C16, its case: the server closed the first connection; the next
\* connect() found the probe failing and opened a second one.
C16_Witness ==
    /\ ret.op = "connect" /\ ret.exc = "none"
    /\ ret.io = <<"NOOP", "OPEN", "LOGIN">>
    /\ Len(conns) = 2 /\ imap = 2
    /\ conns[1].link = "closed" /\ conns[1].state = "SELECTED"
    /\ IsOpen(conns[2]) /\ conns[2].state = "AUTH"

\* The handle holds a connection that has logged in and not logged out.
LoggedIn(cs, h) == h # 0 /\ cs[h].state \in {"AUTH", "SELECTED"}

\* C17: is_logged() returns True only when the session's connection has
\* completed a login and has not been logged out since; and a connect()
\* with correct credentials that returns has the session logged in.
C17_IsLoggedIsLoggedIn ==
    [][/\ (Called("is_logged") /\ ret'.val = <<"True">>) => LoggedIn(conns', imap')
       /\ (Called("connect") /\ ret'.arg = <<"good">> /\ ret'.exc = "none")
             => LoggedIn(conns', imap')]_vars

(***************************************************************************)
(* Concurrent requests.  The handlers are plain functions, which the       *)
(* framework runs on worker threads: several requests are in progress at   *)
(* once, their client calls interleaved.  Each request builds its own      *)
(* client; the server and its mailboxes are shared.                        *)
(***************************************************************************)
ConcurrentRequests ==
    { [handler |-> h, password |-> p, mailbox |-> "INBOX", criteria |-> "ALL",
       batch_size |-> 1, pattern |-> "*"]
      : h \in {"get_emails", "get_mailboxes"}, p \in Credentials }

\* with IMAP4_Client(IMAP_SERVER) as client: the client is a local of the
\* request, so the handle a call works on is the request's own.
ThreadWorld_shared(t) ==
    [conns |-> conns, boxes |-> boxes, h |-> threads[1].imap, io |-> <<>>, lib |-> <<>>]
ThreadWorld(t) ==
    [conns |-> conns, boxes |-> boxes, h |-> threads[t].imap, io |-> <<>>, lib |-> <<>>]

\* The call request t made ended as o: on to position next, or with the
\* exception to position fail; uids and idx are the request's locals
\* afterwards.
ThreadCall(t, o, next, fail, uids, idx) ==
    /\ conns' = o.w.conns
    /\ boxes' = o.w.boxes
    /\ threads' = [threads EXCEPT ![t] =
          [@ EXCEPT !.imap = o.w.h,
                    !.used = @ \cup ({ThreadWorld(t).h, o.w.h} \ {0}),
                    !.pc = IF o.exc = "none" THEN next ELSE fail,
                    !.exc = IF o.exc = "none" THEN @ ELSE o.exc,
                    !.emails_uids = uids,
                    !.index = idx]]
    /\ UNCHANGED <<imap, ret, pc, req, emails_uids, index, emails, windows, response>>

ThreadBegin(t) ==
    /\ threads[t].pc = "idle"
    /\ \E r \in ConcurrentRequests :
          threads' = [threads EXCEPT ![t] = [IdleThread EXCEPT !.pc = "connect", !.req = r]]
    /\ UNCHANGED <<conns, boxes, imap, ret, pc, req, emails_uids, index, emails,
                   windows, response>>

ThreadConnect(t) ==
    /\ threads[t].pc = "connect"
    /\ \E o \in connect(ThreadWorld(t), "USERNAME", threads[t].req.password) :
          ThreadCall(t, o,
                     IF threads[t].req.handler = "get_emails" THEN "select" ELSE "list",
                     "exit", <<>>, 0)

ThreadSelect(t) ==
    /\ threads[t].pc = "select"
    /\ \E o \in select_mailbox(ThreadWorld(t), threads[t].req.mailbox) :
          ThreadCall(t, o, "search", "exit", <<>>, 0)

ThreadSearch(t) ==
    /\ threads[t].pc = "search"
    /\ \E o \in search_emails(ThreadWorld(t), threads[t].req.criteria) :
          ThreadCall(t, o, "loop", "exit", o.val, 0)

ThreadFetch(t) ==
    LET th == threads[t] IN
    /\ th.pc = "loop"
    /\ InRange(th.index, Len(th.emails_uids), th.req.batch_size)
    /\ \E o \in fetch_emails(ThreadWorld(t),
                             Join(",", Slice(th.emails_uids, th.index,
                                             th.index + th.req.batch_size))) :
          ThreadCall(t, o, "loop", "exit", th.emails_uids,
                     IF o.exc = "none" THEN th.index + th.req.batch_size ELSE th.index)

ThreadLoopEnd(t) ==
    /\ threads[t].pc = "loop"
    /\ ~InRange(threads[t].index, Len(threads[t].emails_uids), threads[t].req.batch_size)
    /\ threads' = [threads EXCEPT ![t].pc = "exit"]
    /\ UNCHANGED <<conns, boxes, imap, ret, pc, req, emails_uids, index, emails,
                   windows, response>>

ThreadList(t) ==
    /\ threads[t].pc = "list"
    /\ \E o \in list_mailboxes(ThreadWorld(t), "\"\"", threads[t].req.pattern) :
          ThreadCall(t, o, "exit", "exit", <<>>, 0)

\* __exit__: self.disconnect()
ThreadExit(t) ==
    /\ threads[t].pc = "exit"
    /\ \E o \in disconnect(ThreadWorld(t)) :
          ThreadCall(t, o, "done", "done", threads[t].emails_uids, threads[t].index)

CInit ==
    /\ InitClient
    /\ pc = "idle"
    /\ req = NoRequest
    /\ emails_uids = <<>>
    /\ index = 0
    /\ emails = <<>>
    /\ windows = <<>>
    /\ response = NoResponse
    /\ threads = NoThreads

CNext ==
    \E t \in Requests :
        \/ ThreadBegin(t)
        \/ ThreadConnect(t)
        \/ ThreadSelect(t)
        \/ ThreadSearch(t)
        \/ ThreadFetch(t)
        \/ ThreadLoopEnd(t)
        \/ ThreadList(t)
        \/ ThreadExit(t)

CSpec == CInit /\ [][CNext]_vars

\* C18: concurrent requests never send commands on the same connection, and
\* a step of one request (its disconnect included) leaves every connection
\* another request has used as it was.
C18_OwnConnection ==
    [][/\ \A t1, t2 \in Requests :
             t1 # t2 => threads'[t1].used \cap threads'[t2].used = {}
       /\ \A t \in Requests :
             threads'[t] = threads[t] =>
                \A i \in threads[t].used : conns'[i] = conns[i]]_vars

\* C18, its case: request 2 connected first and is in its fetch loop, its
\* connection open with INBOX selected, while request 1, which connected
\* after it, has already logged out and left.
C18_Witness ==
    /\ threads[2].imap = 1 /\ threads[2].used = {1}
    /\ threads[2].pc = "loop"
    /\ IsOpen(conns[1]) /\ conns[1].state = "SELECTED"
    /\ threads[1].imap = 2 /\ threads[1].used = {2}
    /\ threads[1].pc = "done" /\ threads[1].exc = "none"
    /\ conns[2].state = "LOGOUT" /\ ~conns[2].sock

====
